---- MODULE Spec2Model ----
(***************************************************************************)
(* Model of MongoMemoryServer (packages/mongodb-memory-server-core/src/    *)
(* MongoMemoryServer.ts): the lifecycle state machine, the startup         *)
(* protocol of _startUpInstance, the credential bootstrap of createAuth,   *)
(* the one-shot waiters of ensureInstance, getUri and the teardown of      *)
(* stop.  Callers are asynchronous tasks interleaved on one thread: every  *)
(* action is the code that runs between two awaits.                        *)
(***************************************************************************)
EXTENDS Integers, Sequences, FiniteSets, TLC

(* ---- bounds ---- *)
\* number of concurrent callers (async tasks using the server object)
NumCallers == 2
\* number of public calls (start / stop / ensureInstance) issued in a run
MaxCalls == 4
\* largest number of extra users in an AuthConfig
MaxUsers == 3

Callers == 1..NumCallers

VARIABLES
    opts,          \* this.opts and the flags of this.auth, fixed at construction
    state,         \* this._state
    instanceInfo,  \* this._instanceInfo (NoInfo = undefined)
    listeners,     \* callers registered with this.once(stateChange), in order
    pc,            \* per caller: the await it is suspended at
    op,            \* per caller: the public method it is executing
    loc,           \* per caller: locals of its _startUpInstance / stop
    result,        \* per caller: outcome of its last finished call
    retData,       \* per caller: value its last ensureInstance resolved to
    procs,         \* every mongod launched so far (MongoInstance.run)
    dirs,          \* every tmp.dirSync directory: its removeCallback calls
    events,        \* stateChange notifications emitted so far
    nCalls,        \* public calls issued so far
    nStartUps,     \* executions of _startUpInstance begun so far
    nWaits,        \* once-listeners registered so far (line 440)
    extraUsers,    \* this.auth.extraUsers, the array createAuth works on
    cons           \* every MongoClient connection opened so far (line 497)

vars == <<opts, state, instanceInfo, listeners, pc, op, loc, result, retData,
          procs, dirs, events, nCalls, nStartUps, nWaits, extraUsers, cons>>

(* ---- values ---- *)
NoInfo == [instance |-> 0, tmpDir |-> 0]
\* con is the index in cons of the connection createAuth holds (0 = none),
\* user the index in extraUsers the for-loop of line 527 stands at
NoLoc  == [tmpDir |-> 0, createAuth |-> FALSE, isNew |-> TRUE,
           instance |-> 0, con |-> 0, user |-> 0]

\* MongoMemoryServerStateEnum
MongoMemoryServerStateEnum == {"new", "starting", "running", "stopped"}

\* this.opts.instance.dbPath together with what readdir finds there:
\* "none" = not supplied, "empty" = supplied and empty, "files" = supplied
\* and already populated
DbPaths == {"none", "empty", "files"}

\* authDefault(this.opts.auth): undefined, or {disable, force}
AuthConfigs == {[defined |-> FALSE, disable |-> FALSE, force |-> FALSE]} \cup
               {[defined |-> TRUE, disable |-> d, force |-> f] :
                    d \in BOOLEAN, f \in BOOLEAN}

\* UserSpec.database: a database name, or unset (undefined)
Databases == {"unset", "admin", "a", "b"}

\* AuthConfig.extraUsers with at most n users; id stands for the fields of
\* a UserSpec other than database (createUser, pwd, roles, ...)
UserSeqs(n) ==
    UNION {{[i \in 1..k |-> [id |-> i, database |-> f[i]]] :
               f \in [1..k -> Databases]} : k \in 0..n}

\* the options the constructor stores
MongoMemoryServerOpts ==
    [auth : BOOLEAN,            \* opts.instance.auth
     replSet : BOOLEAN,         \* opts.instance.replSet is set
     dbPath : DbPaths,
     storageEngine : {"ephemeralForTest", "wiredTiger"},
     authCfg : AuthConfigs]

(* ---- helpers ---- *)
\* mutation: the new state is emitted but never stored
stateChange_NoStore(newState) ==
    /\ state' = state
    /\ events' = Append(events, newState)
    /\ listeners' = <<>>

\* mutation: the notification is emitted twice
stateChange_EmitTwice(newState) ==
    /\ state' = newState
    /\ events' = events \o <<newState, newState>>
    /\ listeners' = <<>>

\* stateChange(newState), line 235-238: set _state and emit stateChange;
\* the emit fires every once-listener of ensureInstance and removes it
stateChange(newState) ==
    /\ state' = newState
    /\ events' = Append(events, newState)
    /\ listeners' = <<>>

\* the listener of line 440-449, run with the emitted state: the waiter's
\* promise resolves with this._instanceInfo on "running" and rejects on
\* any other state
Settle(newState) == IF newState = "running" THEN "data" ELSE "WaitRejected"

\* line 277-282, evaluated with the value isNew has at that point
CreateAuthFlag(isNew) ==
    /\ opts.auth
    /\ opts.authCfg.defined
    /\ ~opts.authCfg.disable
    /\ (opts.authCfg.force \/ isNew)
    /\ ~opts.replSet

\* the object after construction (line 198-217) with options from optSet
Constructed(optSet) ==
    /\ opts \in optSet
    /\ state = "new"
    /\ instanceInfo = NoInfo
    /\ listeners = <<>>
    /\ pc = [c \in Callers |-> "idle"]
    /\ op = [c \in Callers |-> "none"]
    /\ loc = [c \in Callers |-> NoLoc]
    /\ result = [c \in Callers |-> "none"]
    /\ retData = [c \in Callers |-> NoInfo]
    /\ procs = <<>>
    /\ dirs = <<>>
    /\ events = <<>>
    /\ nCalls = 0
    /\ nStartUps = 0
    /\ nWaits = 0
    /\ cons = <<>>

\* authDefault(this.opts.auth) (line 209-217): the extra users of the
\* AuthConfig, none when no AuthConfig is given
WithUsers(userSet) ==
    extraUsers \in IF opts.authCfg.defined THEN userSet ELSE {<<>>}

\* new MongoMemoryServer() with the default options (no auth, standalone,
\* storage engine of line 288) and every kind of dbPath
DefaultOpts ==
    {o \in MongoMemoryServerOpts :
        /\ ~o.auth /\ ~o.replSet /\ ~o.authCfg.defined
        /\ o.storageEngine = "ephemeralForTest"}

\* authentication requested on a standalone instance, automatic auth
\* either not configured (with the default storage engine) or configured
\* with its defaults (with either storage engine), every kind of dbPath
AuthOpts ==
    {o \in MongoMemoryServerOpts :
        /\ o.auth /\ ~o.replSet
        /\ ~o.authCfg.disable /\ ~o.authCfg.force
        /\ (o.authCfg.defined \/ o.storageEngine = "ephemeralForTest")}

Init == Constructed(DefaultOpts) /\ WithUsers({<<>>})

(* ---- notification and completion helpers ---- *)
Waiters == {listeners[i] : i \in DOMAIN listeners}

\* f with every registered waiter mapped to v (the once-listeners all fire
\* inside one emit)
Wake(f, v) == [x \in Callers |-> IF x \in Waiters THEN v ELSE f[x]]

StartupPcs == {"getPort", "readdir", "run", "connect", "rootcmd", "usercmd",
               "close", "killNoAuth", "rerun"}
InStartup(c) == pc[c] \in StartupPcs

(* ---- start() ---- *)
\* mutation: start() is guarded by the state instead of the instance data
AlreadyRunning_ByState == state = "starting"

\* line 245: the only guard of start()
AlreadyRunning == instanceInfo # NoInfo

\* start(), called directly (o = "start") or from ensureInstance: either
\* the throw of line 246, or stateChange(starting) followed by the part of
\* _startUpInstance that runs before its first await (getPort)
StartBody(c, o) ==
    IF AlreadyRunning
    THEN /\ result' = [result EXCEPT ![c] = "AlreadyRunning"]
         /\ retData' = [retData EXCEPT ![c] = NoInfo]
         /\ UNCHANGED <<opts, extraUsers, cons, state, instanceInfo,
                        listeners, pc, op, loc, procs, dirs, events,
                        nStartUps, nWaits>>
    ELSE /\ stateChange("starting")
         /\ pc' = [Wake(pc, "idle") EXCEPT ![c] = "getPort"]
         /\ op' = [Wake(op, "none") EXCEPT ![c] = o]
         /\ result' = [Wake(result, Settle("starting")) EXCEPT ![c] = "pending"]
         /\ retData' = [retData EXCEPT ![c] = NoInfo]
         /\ loc' = [loc EXCEPT ![c] =
                       [NoLoc EXCEPT !.createAuth = CreateAuthFlag(NoLoc.isNew)]]
         /\ nStartUps' = nStartUps + 1
         /\ UNCHANGED <<opts, extraUsers, cons, instanceInfo, procs, dirs,
                        nWaits>>

StartCall(c) ==
    /\ pc[c] = "idle"
    /\ nCalls < MaxCalls
    /\ nCalls' = nCalls + 1
    /\ StartBody(c, "start")

\* _startUpInstance rejects: start() warns and rethrows (line 253-258); no
\* state change, no notification, nothing released
Fail(c) ==
    /\ pc' = [pc EXCEPT ![c] = "idle"]
    /\ op' = [op EXCEPT ![c] = "none"]
    /\ loc' = [loc EXCEPT ![c] = NoLoc]
    /\ result' = [result EXCEPT ![c] = "StartupFailed"]
    /\ UNCHANGED <<opts, extraUsers, state, instanceInfo, listeners, retData,
                   events, nCalls, nStartUps, nWaits>>

\* _startUpInstance returns (line 364-368) and start() continues: assign
\* _instanceInfo, stateChange(running) (line 253, 260); the waiters resolve
\* with this._instanceInfo
Succeed(c, inst) ==
    LET info == [instance |-> inst, tmpDir |-> loc[c].tmpDir] IN
    /\ instanceInfo' = info
    /\ stateChange("running")
    /\ loc' = [loc EXCEPT ![c] = NoLoc]
    /\ retData' = Wake(retData, info)
    /\ IF op[c] = "start"
       THEN /\ pc' = [Wake(pc, "idle") EXCEPT ![c] = "idle"]
            /\ op' = [Wake(op, "none") EXCEPT ![c] = "none"]
            /\ result' = [Wake(result, Settle("running")) EXCEPT ![c] = "true"]
       ELSE /\ pc' = [Wake(pc, "idle") EXCEPT ![c] = "ensureRet"]
            /\ op' = Wake(op, "none")
            /\ result' = Wake(result, Settle("running"))
    /\ UNCHANGED <<opts, extraUsers, nCalls, nStartUps, nWaits>>

(* ---- _startUpInstance, one action per await ---- *)
\* getPort resolves (line 285); without a dbPath the temporary directory
\* is created synchronously (line 298-306) and MongoInstance.run is called;
\* with a dbPath readdir is called (line 309)
GetPortDone(c) ==
    /\ pc[c] = "getPort"
    /\ \E ok \in BOOLEAN :
         IF ~ok
         THEN Fail(c) /\ UNCHANGED <<procs, dirs, cons>>
         ELSE IF opts.dbPath = "none"
              THEN /\ dirs' = Append(dirs, 0)
                   /\ loc' = [loc EXCEPT ![c].tmpDir = Len(dirs) + 1,
                                         ![c].isNew = TRUE]
                   /\ pc' = [pc EXCEPT ![c] = "run"]
                   /\ UNCHANGED <<opts, extraUsers, cons, state, instanceInfo,
                                  listeners, op, result, retData, procs,
                                  events, nCalls, nStartUps, nWaits>>
              ELSE /\ pc' = [pc EXCEPT ![c] = "readdir"]
                   /\ UNCHANGED <<opts, extraUsers, cons, state, instanceInfo,
                                  listeners, op, loc, result, retData, procs,
                                  dirs, events, nCalls, nStartUps, nWaits>>

\* readdir resolves (line 309-311): isNew = files.length > 0
ReaddirDone(c) ==
    /\ pc[c] = "readdir"
    /\ \E ok \in BOOLEAN :
         IF ~ok
         THEN Fail(c) /\ UNCHANGED <<procs, dirs, cons>>
         ELSE /\ loc' = [loc EXCEPT ![c].isNew = (opts.dbPath = "files")]
              /\ pc' = [pc EXCEPT ![c] = "run"]
              /\ UNCHANGED <<opts, extraUsers, cons, state, instanceInfo,
                             listeners, op, result, retData, procs, dirs,
                             events, nCalls, nStartUps, nWaits>>

\* a mongod launched by MongoInstance.run; kills counts the kill() calls
\* made on it
NewProc(auth) == [alive |-> TRUE, kills |-> 0, auth |-> auth]

\* instance.kill() is called on process p
KillCalled(ps, p) == [ps EXCEPT ![p].kills = @ + 1]

\* mutation: kill() resolves although the process keeps running
Killed_StillAlive(ps, p) == ps

\* instance.kill() resolved: process p has exited
Killed(ps, p) == [ps EXCEPT ![p].alive = FALSE]

\* MongoInstance.run resolves (line 331): with createAuth the bootstrap
\* starts (MongoClient.connect is called, line 498), otherwise the data is
\* returned
RunDone(c) ==
    /\ pc[c] = "run"
    /\ \E ok \in BOOLEAN :
         IF ~ok
         THEN Fail(c) /\ UNCHANGED <<procs, dirs, cons>>
         ELSE /\ procs' = Append(procs,
                     NewProc(IF loc[c].createAuth THEN FALSE ELSE opts.auth))
              /\ UNCHANGED dirs
              /\ IF opts.authCfg.defined /\ loc[c].createAuth
                 THEN /\ loc' = [loc EXCEPT ![c].instance = Len(procs) + 1]
                      /\ pc' = [pc EXCEPT ![c] = "connect"]
                      /\ UNCHANGED <<opts, extraUsers, cons, state,
                                     instanceInfo, listeners, op, result,
                                     retData, events, nCalls, nStartUps,
                                     nWaits>>
                 ELSE Succeed(c, Len(procs) + 1) /\ UNCHANGED cons

(* ---- Array.prototype.sort with the comparator of line 520-525 ---- *)
\* the comparator: only a database that is the string 'admin' sorts first,
\* equal databases (two unset ones included) compare equal, anything else
\* puts a after b
compare(a, b) ==
    IF a.database = "admin" THEN -1
    ELSE IF a.database = b.database THEN 0 ELSE 1

\* s with e inserted so that k elements of s stay in front of it
InsertAt(s, e, k) == SubSeq(s, 1, k) \o <<e>> \o SubSeq(s, k + 1, Len(s))

\* V8 up to 6.x (Node 10): arrays of at most 10 elements are sorted by
\* straight insertion, comparefn(tmp, element) walking down from the end of
\* the sorted prefix and shifting while the order is > 0
RECURSIVE InsertionPos(_, _, _)
InsertionPos(s, e, j) ==
    IF j = 0 THEN 0
    ELSE IF compare(s[j], e) > 0 THEN InsertionPos(s, e, j - 1) ELSE j

RECURSIVE InsertionSort(_, _)
InsertionSort(a, n) ==
    IF n <= 1 THEN SubSeq(a, 1, n)
    ELSE LET s == InsertionSort(a, n - 1)
         IN  InsertAt(s, a[n], InsertionPos(s, a[n], n - 1))

\* V8 from 7.0 (Node 11 and later): TimSort; below 64 elements it is one
\* run found by CountAndMakeRun (a strictly descending run is reversed)
\* extended by BinaryInsertionSort, comparefn(pivot, element at mid)
RECURSIVE RunEnd(_, _, _)
RunEnd(a, desc, idx) ==
    IF idx > Len(a) THEN idx - 1
    ELSE LET order == compare(a[idx], a[idx - 1])
         IN  IF (desc /\ order >= 0) \/ (~desc /\ order < 0)
             THEN idx - 1
             ELSE RunEnd(a, desc, idx + 1)

Reverse(s) == [i \in 1..Len(s) |-> s[Len(s) + 1 - i]]

RECURSIVE BinaryPos(_, _, _, _)
BinaryPos(a, pivot, left, right) ==
    IF left >= right THEN left
    ELSE LET mid == left + ((right - left) \div 2)
         IN  IF compare(pivot, a[mid]) < 0
             THEN BinaryPos(a, pivot, left, mid)
             ELSE BinaryPos(a, pivot, mid + 1, right)

RECURSIVE BinaryInsertionSort(_, _)
BinaryInsertionSort(a, start) ==
    IF start > Len(a) THEN a
    ELSE LET left == BinaryPos(a, a[start], 1, start)
             moved == InsertAt(SubSeq(a, 1, start - 1), a[start], left - 1)
                          \o SubSeq(a, start + 1, Len(a))
         IN  BinaryInsertionSort(moved, start + 1)

TimSort(a) ==
    IF Len(a) < 2 THEN a
    ELSE LET desc == compare(a[2], a[1]) < 0
             run  == RunEnd(a, desc, 3)
             made == IF desc
                     THEN Reverse(SubSeq(a, 1, run)) \o SubSeq(a, run + 1, Len(a))
                     ELSE a
         IN  BinaryInsertionSort(made, run + 1)

\* the comparator is not a consistent ordering, so the result of sort is
\* whatever the algorithm of the JavaScript engine makes of it
Runtimes == {"insertion", "timsort"}

ArraySort(runtime, a) ==
    IF runtime = "insertion" THEN InsertionSort(a, Len(a)) ELSE TimSort(a)

(* ---- createAuth, one action per await ---- *)
RootUser == [id |-> 0, database |-> "admin"]

\* line 528: an unset database is replaced by 'admin', in the UserSpec
\* object of the array itself
Defaulted(users, i) ==
    [users EXCEPT ![i].database = IF @ = "unset" THEN "admin" ELSE @]

\* mutation: the createUser command of a user is sent twice
Sent_Twice(k, user) == [cons EXCEPT ![k].cmds = @ \o <<user, user>>]

\* db.command({createUser ...}) is sent over connection k (line 507, 535)
Sent(k, user) == [cons EXCEPT ![k].cmds = Append(@, user)]

\* MongoClient.connect resolves (line 498); the root-user command is sent
ConnectDone(c) ==
    /\ pc[c] = "connect"
    /\ \E ok \in BOOLEAN :
         IF ~ok
         THEN Fail(c) /\ UNCHANGED <<procs, dirs, cons>>
         ELSE /\ cons' = Append(cons, [state |-> "open", cmds |-> <<RootUser>>])
              /\ loc' = [loc EXCEPT ![c].con = Len(cons) + 1]
              /\ pc' = [pc EXCEPT ![c] = "rootcmd"]
              /\ UNCHANGED <<opts, extraUsers, state, instanceInfo, listeners,
                             op, result, retData, procs, dirs, events, nCalls,
                             nStartUps, nWaits>>

\* the for-loop of line 527-545 reaches user i: its database is defaulted
\* and its createUser command is sent; past the last user con.close() is
\* called (line 547)
NextUser(c, users, i) ==
    IF i <= Len(users)
    THEN /\ extraUsers' = Defaulted(users, i)
         /\ cons' = Sent(loc[c].con, Defaulted(users, i)[i])
         /\ loc' = [loc EXCEPT ![c].user = i]
         /\ pc' = [pc EXCEPT ![c] = "usercmd"]
    ELSE /\ pc' = [pc EXCEPT ![c] = "close"]
         /\ UNCHANGED <<extraUsers, cons, loc>>

\* the createUser command of the root user resolves (line 507-516); the
\* extra users are sorted in place (line 518-525) and the loop starts
RootCmdDone(c) ==
    /\ pc[c] = "rootcmd"
    /\ \E ok \in BOOLEAN :
         IF ~ok
         THEN Fail(c) /\ UNCHANGED <<procs, dirs, cons>>
         ELSE /\ \E runtime \in Runtimes :
                    NextUser(c, ArraySort(runtime, extraUsers), 1)
              /\ UNCHANGED <<opts, state, instanceInfo, listeners, op, result,
                             retData, procs, dirs, events, nCalls, nStartUps,
                             nWaits>>

\* the createUser command of an extra user resolves (line 535-544)
UserCmdDone(c) ==
    /\ pc[c] = "usercmd"
    /\ \E ok \in BOOLEAN :
         IF ~ok
         THEN Fail(c) /\ UNCHANGED <<procs, dirs, cons>>
         ELSE /\ NextUser(c, extraUsers, loc[c].user + 1)
              /\ UNCHANGED <<opts, state, instanceInfo, listeners, op, result,
                             retData, procs, dirs, events, nCalls, nStartUps,
                             nWaits>>

\* mutation: the no-auth instance is restarted whatever the engine
NeedsRestart_Always == TRUE

\* line 338: only a persistent storage engine needs the restart with auth
NeedsRestart == opts.storageEngine # "ephemeralForTest"

\* the connection of caller c once con.close() has resolved (how = closed)
\* or rejected (how = closeFailed)
Closed(c, how) == [cons EXCEPT ![loc[c].con].state = how]

\* con.close() resolves, createAuth returns (line 336); a persistent
\* storage engine gets the no-auth instance killed (line 338-340), the
\* ephemeral one is kept as it is
CloseDone(c) ==
    /\ pc[c] = "close"
    /\ \E ok \in BOOLEAN :
         IF ~ok
         THEN Fail(c) /\ UNCHANGED <<procs, dirs>>
                      /\ cons' = Closed(c, "closeFailed")
         ELSE /\ cons' = Closed(c, "closed")
              /\ IF NeedsRestart
                 THEN /\ pc' = [pc EXCEPT ![c] = "killNoAuth"]
                      /\ procs' = KillCalled(procs, loc[c].instance)
                      /\ UNCHANGED <<opts, extraUsers, state, instanceInfo,
                                     listeners, op, loc, result, retData,
                                     dirs, events, nCalls, nStartUps, nWaits>>
                 ELSE Succeed(c, loc[c].instance) /\ UNCHANGED <<procs, dirs>>

\* instance.kill() of the no-auth instance resolves (line 340);
\* MongoInstance.run is called again (line 344)
KillNoAuthDone(c) ==
    /\ pc[c] = "killNoAuth"
    /\ \E ok \in BOOLEAN :
         IF ~ok
         THEN Fail(c) /\ UNCHANGED <<procs, dirs, cons>>
         ELSE /\ procs' = Killed(procs, loc[c].instance)
              /\ pc' = [pc EXCEPT ![c] = "rerun"]
              /\ UNCHANGED <<opts, extraUsers, cons, state, instanceInfo,
                             listeners, op, loc, result, retData, dirs,
                             events, nCalls, nStartUps, nWaits>>

\* the second MongoInstance.run resolves (line 344-350), auth as configured
RerunDone(c) ==
    /\ pc[c] = "rerun"
    /\ \E ok \in BOOLEAN :
         IF ~ok
         THEN Fail(c) /\ UNCHANGED <<procs, dirs, cons>>
         ELSE /\ procs' = Append(procs, NewProc(opts.auth))
              /\ UNCHANGED dirs
              /\ Succeed(c, Len(procs) + 1)
              /\ UNCHANGED cons

(* ---- stop() ---- *)
\* mutation: stop() returns early only once the state is stopped
NothingToStop_ByState == state = "stopped"

\* line 378: stop() returns true at once when there is no instance
NothingToStop == instanceInfo = NoInfo

\* stop() up to its await (line 374-394): kill() is called on the instance
\* that _instanceInfo holds now
StopCall(c) ==
    /\ pc[c] = "idle"
    /\ nCalls < MaxCalls
    /\ nCalls' = nCalls + 1
    /\ retData' = [retData EXCEPT ![c] = NoInfo]
    /\ IF NothingToStop
       THEN /\ result' = [result EXCEPT ![c] = "true"]
            /\ UNCHANGED <<opts, extraUsers, cons, state, instanceInfo,
                           listeners, pc, op, loc, procs, dirs, events,
                           nStartUps, nWaits>>
       ELSE /\ pc' = [pc EXCEPT ![c] = "stopKill"]
            /\ op' = [op EXCEPT ![c] = "stop"]
            /\ loc' = [loc EXCEPT ![c].instance = instanceInfo.instance]
            /\ procs' = KillCalled(procs, instanceInfo.instance)
            /\ result' = [result EXCEPT ![c] = "pending"]
            /\ UNCHANGED <<opts, extraUsers, cons, state, instanceInfo,
                           listeners, dirs, events, nStartUps, nWaits>>

\* mutation: the temporary directory is never removed
Release_Never(ds, d) == ds

\* tmpDir.removeCallback() (line 396-400) on the directory d, 0 = none
Release(ds, d) == IF d = 0 THEN ds ELSE [ds EXCEPT ![d] = @ + 1]

\* kill() resolves and stop() continues (line 396-405) with whatever
\* this._instanceInfo is by now: reading .tmpDir of undefined throws a
\* TypeError; a rejected kill() rejects stop()
StopKillDone(c) ==
    /\ pc[c] = "stopKill"
    /\ loc' = [loc EXCEPT ![c] = NoLoc]
    /\ UNCHANGED <<opts, extraUsers, cons, retData, nCalls, nStartUps,
                   nWaits>>
    /\ \E ok \in BOOLEAN :
         IF ~ok
         THEN /\ pc' = [pc EXCEPT ![c] = "idle"]
              /\ op' = [op EXCEPT ![c] = "none"]
              /\ result' = [result EXCEPT ![c] = "KillFailed"]
              /\ UNCHANGED <<state, instanceInfo, listeners, procs, dirs,
                             events>>
         ELSE /\ procs' = Killed(procs, loc[c].instance)
              /\ IF instanceInfo = NoInfo
                 THEN /\ pc' = [pc EXCEPT ![c] = "idle"]
                      /\ op' = [op EXCEPT ![c] = "none"]
                      /\ result' = [result EXCEPT ![c] = "TypeError"]
                      /\ UNCHANGED <<state, instanceInfo, listeners, dirs,
                                     events>>
                 ELSE /\ dirs' = Release(dirs, instanceInfo.tmpDir)
                      /\ instanceInfo' = NoInfo
                      /\ stateChange("stopped")
                      /\ pc' = [Wake(pc, "idle") EXCEPT ![c] = "idle"]
                      /\ op' = [Wake(op, "none") EXCEPT ![c] = "none"]
                      /\ result' = [Wake(result, Settle("stopped"))
                                       EXCEPT ![c] = "true"]

(* ---- ensureInstance() ---- *)
\* mutation: the starting case falls through to start()
EnsureWaits_Never == FALSE

\* line 438: while a startup is in flight ensureInstance does not call
\* start() but registers a one-shot listener
EnsureWaits == state = "starting"

\* ensureInstance() up to its first await or return (line 426-456)
EnsureCall(c) ==
    /\ pc[c] = "idle"
    /\ nCalls < MaxCalls
    /\ nCalls' = nCalls + 1
    /\ IF instanceInfo # NoInfo
       THEN /\ result' = [result EXCEPT ![c] = "data"]
            /\ retData' = [retData EXCEPT ![c] = instanceInfo]
            /\ UNCHANGED <<opts, extraUsers, cons, state, instanceInfo,
                           listeners, pc, op, loc, procs, dirs, events,
                           nStartUps, nWaits>>
       ELSE IF state = "running"
            THEN /\ result' = [result EXCEPT ![c] = "InconsistentState"]
                 /\ retData' = [retData EXCEPT ![c] = NoInfo]
                 /\ UNCHANGED <<opts, extraUsers, cons, state, instanceInfo,
                                listeners, pc, op, loc, procs, dirs, events,
                                nStartUps, nWaits>>
            ELSE IF EnsureWaits
                 THEN /\ listeners' = Append(listeners, c)
                      /\ nWaits' = nWaits + 1
                      /\ pc' = [pc EXCEPT ![c] = "waiting"]
                      /\ op' = [op EXCEPT ![c] = "ensureInstance"]
                      /\ result' = [result EXCEPT ![c] = "pending"]
                      /\ retData' = [retData EXCEPT ![c] = NoInfo]
                      /\ UNCHANGED <<opts, extraUsers, cons, state,
                                     instanceInfo, loc, procs, dirs, events,
                                     nStartUps>>
                 ELSE StartBody(c, "ensureInstance")

\* start() resolved inside ensureInstance (line 457-464): check
\* _instanceInfo again and return it
EnsureAfterStart(c) ==
    /\ pc[c] = "ensureRet"
    /\ pc' = [pc EXCEPT ![c] = "idle"]
    /\ op' = [op EXCEPT ![c] = "none"]
    /\ IF instanceInfo = NoInfo
       THEN /\ result' = [result EXCEPT ![c] = "EnsureFailed"]
            /\ retData' = [retData EXCEPT ![c] = NoInfo]
       ELSE /\ result' = [result EXCEPT ![c] = "data"]
            /\ retData' = [retData EXCEPT ![c] = instanceInfo]
    /\ UNCHANGED <<opts, extraUsers, cons, state, instanceInfo, listeners,
                   loc, procs, dirs, events, nCalls, nStartUps, nWaits>>

(* ---- getUri() ---- *)
\* the otherDbName argument: left out, a boolean, or a string
UriArgs ==
    {[kind |-> "undefined", name |-> ""], [kind |-> "boolean", name |-> ""]}
        \cup {[kind |-> "string", name |-> n] : n \in {"dbName", "other"}}

\* ip, port and dbName of a recorded instance (line 285-287): the default
\* ip, the configured database name, and the port the recorded process
\* listens on, named by that process
InstanceData(info) ==
    [ip |-> "127.0.0.1", port |-> info.instance, dbName |-> "dbName"]

\* the connection string scheme://host:port/databaseName
uriTemplate(host, port, dbName) ==
    [host |-> host, port |-> port, dbName |-> dbName]

\* a freshly generated database name
generateDbName == "generated"

\* the error of assertionInstanceInfo (line 558-560)
NotRunning == [error |-> "instanceInfo is undefined"]

\* mutation: the override name is ignored
getUri_DefaultName(otherDbName) ==
    IF instanceInfo = NoInfo
    THEN NotRunning
    ELSE LET data == InstanceData(instanceInfo)
         IN  uriTemplate(data.ip, data.port, data.dbName)

\* getUri(otherDbName), line 471-483: synchronous and without side effect,
\* so it is an operator on the current state
getUri(otherDbName) ==
    IF instanceInfo = NoInfo
    THEN NotRunning
    ELSE LET data == InstanceData(instanceInfo)
             dbName == IF otherDbName.kind = "undefined" THEN data.dbName
                       ELSE IF otherDbName.kind = "string"
                            THEN otherDbName.name
                            ELSE generateDbName
         IN  uriTemplate(data.ip, data.port, dbName)

(* ---- specifications ---- *)
\* the awaits of _startUpInstance that are reached without createAuth
LaunchStep(c) ==
    \/ GetPortDone(c)
    \/ ReaddirDone(c)
    \/ RunDone(c)

StartUpStep(c) ==
    \/ LaunchStep(c)
    \/ ConnectDone(c)
    \/ RootCmdDone(c)
    \/ UserCmdDone(c)
    \/ CloseDone(c)
    \/ KillNoAuthDone(c)
    \/ RerunDone(c)

\* any interleaving of start(), stop() and ensureInstance() by the callers
\* on a server with the default options: createAuth is false there, so
\* the actions of the bootstrap are never enabled and are not listed
Next ==
    \E c \in Callers :
        \/ StartCall(c)
        \/ StopCall(c)
        \/ EnsureCall(c)
        \/ EnsureAfterStart(c)
        \/ StopKillDone(c)
        \/ LaunchStep(c)

Spec == Init /\ [][Next]_vars

\* one task calls start() on the new object; once that call has returned,
\* another task calls stop(), each stop() after the previous one returned
SeqStart == nCalls = 0 /\ StartCall(1)
SeqStop == pc[1] = "idle" /\ pc[2] = "idle" /\ nCalls >= 1 /\ StopCall(2)

NextSeq ==
    \/ SeqStart
    \/ SeqStop
    \/ StartUpStep(1)
    \/ StopKillDone(2)

SpecSeq ==
    /\ Constructed(MongoMemoryServerOpts) /\ WithUsers(UserSeqs(MaxUsers))
    /\ [][NextSeq]_vars

\* the callers only use ensureInstance(), possibly after one start() on
\* the new object
FirstStart(c) == state = "new" /\ StartCall(c)

NextEnsure ==
    \E c \in Callers :
        \/ FirstStart(c)
        \/ EnsureCall(c)
        \/ EnsureAfterStart(c)
        \/ StartUpStep(c)

SpecEnsure ==
    /\ Constructed(AuthOpts) /\ WithUsers(UserSeqs(1))
    /\ [][NextEnsure]_vars

(* ---- properties ---- *)
StartingUp == {c \in Callers : InStartup(c)}

\* C1 (SpecEnsure): ensureInstance() calls made while a startup is in
\* flight start nothing themselves, so there is exactly one execution of
\* _startUpInstance once anything was called; no waiter is rejected or left
\* behind when the startup succeeds, and every ensureInstance() that
\* resolved holds the very RunningInstanceData the server holds.
C1_OneStartupSameData ==
    /\ nStartUps = (IF nCalls = 0 THEN 0 ELSE 1)
    /\ \A c \in Callers : result[c] # "WaitRejected"
    /\ state = "running" => \A c \in Callers : pc[c] # "waiting"
    /\ \A c \in Callers :
         result[c] = "data" =>
             retData[c] # NoInfo /\ retData[c] = instanceInfo

\* two ensureInstance() calls resolved from the one startup, the first
\* having called start() and the second having waited for it
C1_Witness ==
    /\ nStartUps = 1
    /\ nCalls = 2
    /\ state = "running"
    /\ nWaits = 1
    /\ \A c \in {1, 2} :
         pc[c] = "idle" /\ result[c] = "data" /\ retData[c] = instanceInfo

\* C2 (as claimed): a caller of ensureInstance() is only ever waiting while
\* a startup attempt is in flight, i.e. the failure of the attempt settles
\* its waiters.
C2_WaitersFailWithStartup ==
    (\E c \in Callers : pc[c] = "waiting") => StartingUp # {}

\* C3 (as claimed): at most one execution of _startUpInstance is in
\* progress at any time.
C3_AtMostOneStartup == Cardinality(StartingUp) <= 1

\* C4: _instanceInfo is present if and only if _state is running.
C4_InfoIffRunning == (instanceInfo # NoInfo) <=> (state = "running")

\* an instance is running again after a stop, while a stop() of the first
\* instance is still suspended at its kill()
C4_Witness ==
    /\ state = "running"
    /\ instanceInfo # NoInfo
    /\ Len(events) >= 5
    /\ \E c \in Callers :
         pc[c] = "stopKill" /\ loc[c].instance # instanceInfo.instance

\* C5 (SpecSeq): start() on a new object and then stop(): the state goes
\* new, starting, running, stopped and the notifications emitted are
\* exactly starting, running, stopped, one per transition.
C5_StartStopProgress ==
    /\ nCalls = 0 => state = "new" /\ events = <<>>
    /\ InStartup(1) => state = "starting" /\ events = <<"starting">>
    /\ (result[1] = "true" /\ result[2] # "true") =>
           state = "running" /\ events = <<"starting", "running">>
    /\ (result[1] = "true" /\ result[2] = "true") =>
           state = "stopped" /\ events = <<"starting", "running", "stopped">>

C5_Witness ==
    /\ result[1] = "true" /\ result[2] = "true"
    /\ nCalls = 2
    /\ state = "stopped"
    /\ events = <<"starting", "running", "stopped">>

\* C6: start() called while _instanceInfo is present fails with the
\* already-running error and changes neither the state nor the instance
\* data, emits nothing, launches and kills nothing.
C6_StartWhileRunningRejected ==
    [][\A c \in Callers :
          (instanceInfo # NoInfo /\ StartCall(c)) =>
              /\ result'[c] = "AlreadyRunning"
              /\ UNCHANGED <<state, instanceInfo, events, listeners, procs,
                             dirs, pc, loc, nStartUps>>]_vars

C6_Witness ==
    \E c \in Callers :
        result[c] = "AlreadyRunning" /\ state = "running" /\ Len(procs) = 1

\* C7 (as claimed): no temporary directory is released twice, and whenever
\* there is no instance data and no startup in flight every temporary
\* directory created so far has been released.
C7_TmpDirReleasedOnce ==
    \A d \in DOMAIN dirs :
        /\ dirs[d] <= 1
        /\ (instanceInfo = NoInfo /\ StartingUp = {}) => dirs[d] = 1

\* C8 (SpecSeq): stop() without an instance returns true and has no side
\* effect; no process is successfully stopped by more than one kill() of
\* stop() after stop(), and no temporary directory is released twice.
C8_StopIdempotent ==
    [][/\ (instanceInfo = NoInfo /\ SeqStop) =>
             /\ result'[2] = "true"
             /\ UNCHANGED <<state, instanceInfo, events, listeners, procs,
                            dirs, pc, loc, nStartUps>>
       /\ \A d \in DOMAIN dirs' : dirs'[d] <= 1
       /\ (result'[1] = "true" /\ result[2] = "true") =>
             /\ \A d \in DOMAIN dirs' : dirs'[d] = 1
             /\ procs'[Len(procs')].kills = procs[Len(procs)].kills]_vars

\* start() succeeded, the first stop() killed and released, the second
\* stop() returned true: one kill() call, one release
C8_Witness ==
    /\ nCalls = 3
    /\ result[1] = "true" /\ result[2] = "true"
    /\ pc[2] = "idle"
    /\ state = "stopped"
    /\ dirs = <<1>>
    /\ procs[Len(procs)].kills = 1 /\ ~procs[Len(procs)].alive

\* C9 (as claimed): a stop() whose kill() succeeded never rejects.
C9_StopNeverRejects == \A c \in Callers : result[c] # "TypeError"

\* C10 (as claimed, SpecSeq): createAuth does not run in a startup attempt
\* whose supplied dbPath already has entries unless force is set.
C10_NoBootstrapOnExistingData ==
    \A c \in Callers :
        pc[c] \in {"connect", "rootcmd", "close"} =>
            ~(opts.dbPath = "files" /\ ~opts.authCfg.force)

(* ---- the credential bootstrap inside a startup (SpecSeq) ---- *)
Alive == {i \in DOMAIN procs : procs[i].alive}

\* the createUser commands a finished createAuth has sent: the root user
\* and every extra user
AllCreated(k) == Len(cons[k].cmds) = 1 + Len(extraUsers)

\* C11 (SpecSeq): with the bootstrap required and a persistent storage
\* engine, start() launches mongod without auth, runs the bootstrap on it,
\* kills it and only then launches the second mongod with auth on the same
\* temporary directory; the data start() records names the second process,
\* and the two processes are never alive together.
C11_BootstrapThenRestart ==
    (CreateAuthFlag(TRUE) /\ opts.storageEngine = "wiredTiger") =>
        /\ Cardinality(Alive) <= 1
        /\ pc[1] \in {"connect", "rootcmd", "usercmd", "close"} =>
               /\ procs = <<[alive |-> TRUE, kills |-> 0, auth |-> FALSE]>>
               /\ instanceInfo = NoInfo
        /\ pc[1] = "killNoAuth" =>
               /\ procs = <<[alive |-> TRUE, kills |-> 1, auth |-> FALSE]>>
               /\ cons[1].state = "closed" /\ AllCreated(1)
               /\ instanceInfo = NoInfo
        /\ pc[1] = "rerun" =>
               /\ procs = <<[alive |-> FALSE, kills |-> 1, auth |-> FALSE]>>
               /\ instanceInfo = NoInfo
        /\ (result[1] = "true" /\ nCalls = 1) =>
               /\ procs = <<[alive |-> FALSE, kills |-> 1, auth |-> FALSE],
                            [alive |-> TRUE, kills |-> 0, auth |-> TRUE]>>
               /\ instanceInfo.instance = 2
               /\ opts.dbPath = "none" =>
                      instanceInfo.tmpDir = 1 /\ dirs = <<0>>
               /\ AllCreated(1)

C11_Witness ==
    /\ CreateAuthFlag(TRUE) /\ opts.storageEngine = "wiredTiger"
    /\ result[1] = "true" /\ nCalls = 1
    /\ Len(procs) = 2 /\ instanceInfo.instance = 2
    /\ Len(extraUsers) = 2

\* C12 (SpecSeq): with the bootstrap required and the ephemeral storage
\* engine, a successful start() has launched mongod exactly once, without
\* auth, has created the users on it and has neither killed nor relaunched
\* it: the running instance does not enforce authentication.
C12_BootstrapEphemeral ==
    (/\ CreateAuthFlag(TRUE) /\ opts.storageEngine = "ephemeralForTest"
     /\ result[1] = "true" /\ nCalls = 1) =>
        /\ procs = <<[alive |-> TRUE, kills |-> 0, auth |-> FALSE]>>
        /\ instanceInfo.instance = 1
        /\ Len(cons) = 1 /\ cons[1].state = "closed" /\ AllCreated(1)

C12_Witness ==
    /\ CreateAuthFlag(TRUE) /\ opts.storageEngine = "ephemeralForTest"
    /\ result[1] = "true" /\ nCalls = 1
    /\ state = "running" /\ Len(procs) = 1 /\ ~procs[1].auth
    /\ Len(extraUsers) = 1

(* ---- getUri (Spec) ---- *)
\* C13: getUri fails with the not-running error whenever no instance data
\* is recorded, which is the case in the states new, starting and stopped;
\* while an instance is running, a string override yields the URI made of
\* the instance's ip and port and the override name.
C13_GetUri ==
    \A a \in UriArgs :
        /\ instanceInfo = NoInfo => getUri(a) = NotRunning
        /\ state \in {"new", "starting", "stopped"} => getUri(a) = NotRunning
        /\ (state = "running" /\ a.kind = "string") =>
               getUri(a) = [host |-> "127.0.0.1",
                            port |-> instanceInfo.instance,
                            dbName |-> a.name]

\* a second instance is running after a stop, and the override differs
\* from the instance's own database name
C13_Witness ==
    /\ state = "running"
    /\ \E i \in DOMAIN events : events[i] = "stopped"
    /\ getUri([kind |-> "string", name |-> "other"]) # NotRunning
    /\ getUri([kind |-> "string", name |-> "other"]).dbName = "other"
    /\ getUri([kind |-> "undefined", name |-> ""]).dbName = "dbName"

(* ---- failed startups and teardown ---- *)
\* C14 (as claimed, SpecSeq): once start() has rejected with the startup
\* failure no instance data is recorded and the state is back at new.
C14_FailedStartReturnsToNew ==
    result[1] = "StartupFailed" => (instanceInfo = NoInfo /\ state = "new")

\* caller c's stop() resumes after its kill() and removes the temporary
\* directory of the instance data recorded at that moment
Releases(c) ==
    /\ pc[c] = "stopKill" /\ pc'[c] = "idle"
    /\ instanceInfo.tmpDir # 0
    /\ dirs'[instanceInfo.tmpDir] > dirs[instanceInfo.tmpDir]

\* C15 (as claimed): the directory a stop() removes belongs to the instance
\* that this stop() has killed, and the process using it is not alive.
C15_ReleaseAfterOwnKill ==
    [][\A c \in Callers :
          Releases(c) =>
              /\ loc[c].instance = instanceInfo.instance
              /\ ~procs'[instanceInfo.instance].alive]_vars

\* C16 (SpecSeq): while stop() is suspended at kill() nothing else of the
\* teardown has happened; when kill() rejects stop() rejects and the
\* directory, the instance data and the state are left as they were; when it
\* resolves, the process is dead, its directory is removed once, the data
\* is cleared and stopped is notified, all before anything else can run.
C16_StopOrder ==
    [][pc[2] = "stopKill" =>
          /\ state = "running" /\ instanceInfo # NoInfo
          /\ loc[2].instance = instanceInfo.instance
          /\ procs[instanceInfo.instance].alive
          /\ procs[instanceInfo.instance].kills >= 1
          /\ \A d \in DOMAIN dirs : dirs[d] = 0
          /\ pc'[2] = "idle" =>
                IF result'[2] = "KillFailed"
                THEN UNCHANGED <<dirs, instanceInfo, state, events, procs>>
                ELSE /\ result'[2] = "true"
                     /\ ~procs'[instanceInfo.instance].alive
                     /\ \A d \in DOMAIN dirs :
                            dirs'[d] = IF d = instanceInfo.tmpDir THEN 1 ELSE 0
                     /\ instanceInfo.tmpDir # 0 \/ opts.dbPath # "none"
                     /\ instanceInfo' = NoInfo
                     /\ state' = "stopped"
                     /\ events' = Append(events, "stopped")]_vars

\* both outcomes of kill() have been seen in one run: a stop() that
\* rejected and a later one that completed the teardown
C16_Witness ==
    /\ result[2] = "true" /\ state = "stopped" /\ instanceInfo = NoInfo
    /\ nCalls = 3
    /\ procs[Len(procs)].kills = 2 /\ ~procs[Len(procs)].alive
    /\ dirs = <<1>>

(* ---- createAuth (SpecSeq) ---- *)
\* the callers inside createAuth after MongoClient.connect has resolved
InCreateAuth == {c \in Callers : pc[c] \in {"rootcmd", "usercmd", "close"}}

\* C17 (as claimed): a connection createAuth opened is open only while that
\* createAuth is still running; on every exit it has been closed.
C17_ConnectionClosedOnExit ==
    \A k \in DOMAIN cons :
        cons[k].state = "open" => \E c \in InCreateAuth : loc[c].con = k

\* the createUser commands sent so far by the bootstrap of caller 1
Cmds == IF cons = <<>> THEN <<>> ELSE cons[1].cmds

\* C18 (SpecSeq): the bootstrap sends the root user's command first and
\* then one command per extra user in the order of the array; a command is
\* sent only in the step in which the previous one has succeeded, and when
\* one fails nothing further is sent and start() rejects without recording
\* an instance.
C18_OneCommandAtATime ==
    [][/\ Len(cons) <= 1
       /\ Cmds # <<>> =>
              /\ Cmds[1] = RootUser
              /\ Len(Cmds) <= 1 + Len(extraUsers)
              /\ \A j \in 1..(Len(Cmds) - 1) : Cmds[j + 1] = extraUsers[j]
              /\ {extraUsers[j].id : j \in DOMAIN extraUsers}
                     = 1..Len(extraUsers)
       /\ pc[1] = "rootcmd" => Len(Cmds) = 1
       /\ pc[1] = "usercmd" => Len(Cmds) = 1 + loc[1].user
       /\ pc[1] \in {"close", "killNoAuth", "rerun"} => AllCreated(1)
       /\ (cons # <<>> /\ result[1] = "true") => AllCreated(1)
       /\ Cmds' # Cmds =>
              /\ pc[1] \in {"connect", "rootcmd", "usercmd"}
              /\ pc'[1] = IF pc[1] = "connect" THEN "rootcmd" ELSE "usercmd"
              /\ Len(Cmds') = Len(Cmds) + 1
       /\ (pc[1] \in {"rootcmd", "usercmd"} /\ pc'[1] = "idle") =>
              /\ result'[1] = "StartupFailed"
              /\ Cmds' = Cmds
              /\ instanceInfo' = NoInfo]_vars

\* the command of the second of three extra users failed: the third one
\* was never sent
C18_Witness ==
    /\ result[1] = "StartupFailed"
    /\ Len(extraUsers) = 3
    /\ Len(Cmds) = 3
    /\ instanceInfo = NoInfo

\* the extra users in the order their commands were sent; id is the
\* position the user had in the array at construction
Created == Tail(Cmds)

\* C19 (as claimed, SpecSeq): once every user is created, no user of
\* another database precedes a user created in admin, and two users of the
\* same group were created in their original relative order.
C19_StablePartition ==
    (cons # <<>> /\ AllCreated(1)) =>
        \A i, j \in DOMAIN Created :
            i < j =>
                /\ Created[j].database = "admin" =>
                       Created[i].database = "admin"
                /\ (Created[i].database = "admin")
                       = (Created[j].database = "admin") =>
                       Created[i].id < Created[j].id

\* C20 (as claimed): createAuth only reads the AuthConfig, so the array of
\* extra users and the fields of its UserSpecs never change.
C20_AuthConfigReadOnly == [][extraUsers' = extraUsers]_vars

====
